---- MODULE Spec2Model ----
EXTENDS Integers, Sequences, FiniteSets, TLC

(***************************************************************************)
(* Model of brickcharts: the cache layer (src/src/data/ChartCache.ts), the  *)
(* search engine (src/src/search/SearchEngine.ts) and BrickCharts.getChart. *)
(* Strings are sequences of tokens; a Date is a tagged record so that the  *)
(* JSON round trip through localStorage is modelled by what it does.       *)
(***************************************************************************)

\* ---------------------------------------------------------------- bounds
MaxTime == 2
MaxSizeLimit == 2
MaxTtl == 1
MaxTextLen == 5
MaxQueryLen == 3
MaxLimit == 2
MaxIndexed == 4
MaxInFlight == 1

\* ---------------------------------------------------------------- values
\* Cache keys as ChartDataManager.generateCacheKey builds them:
\* `${source}-${chartType}-${dateStr}`, one token per word or hyphen.
Keys ==
    { <<"lastfm", "-", "top", "-", "tracks", "-", "d1">>,
      <<"lastfm", "-", "top", "-", "tracks", "-", "weekly", "-", "d1">>,
      <<"billboard", "-", "hot", "-", "100", "-", "d1">> }

Patterns ==
    { <<"lastfm", "-">>,
      <<"weekly">>,
      <<"lastfm", "-", "top", "-", "tracks", "-">> }

\* The keys used on the persistent cache.
StoreKeys ==
    { <<"lastfm", "-", "top", "-", "tracks", "-", "d1">>,
      <<"billboard", "-", "hot", "-", "100", "-", "d1">> }

\* The options of the persistent cache: the smallest cache, which a second
\* key already fills.
StoreTtls == {1}
StoreSizes == {1}

\* The substrings given to clearByPattern on the persistent cache.
StorePatterns == { <<"lastfm", "-">>, <<"-">> }

NoKey == <<>>

Null == [type |-> "null"]
Void == [type |-> "void"]

DateObj(d) == [type |-> "Date", iso |-> d]
DateStr(d) == [type |-> "string", iso |-> d]

\* Two chart snapshots: one without entries, one with an entry carrying a Date.
ChartDatas ==
    { [chartType |-> "c1", date |-> DateObj("d1"), entries |-> <<>>],
      [chartType |-> "c2", date |-> DateObj("d1"),
       entries |-> << [rank |-> 1, chartDate |-> DateObj("d1")] >>] }

\* Date.prototype.toISOString / toJSON
toISOString(d) == DateStr(d.iso)

\* new Date(isoString)
newDate(s) == DateObj(s.iso)

\* What JSON.stringify does to the entries of a chart: every Date becomes its
\* ISO string (Date.prototype.toJSON).
StringifyEntries(es) ==
    [i \in 1..Len(es) |->
        [es[i] EXCEPT !.chartDate =
            IF es[i].chartDate.type = "Date" THEN toISOString(es[i].chartDate)
            ELSE es[i].chartDate]]

Absent == [type |-> "absent"]
Corrupt == [type |-> "corrupt"]

\* saveToStorage: the JSON text written for a CacheItem.
Serialize(item) ==
    [type |-> "json",
     data |-> [item.data EXCEPT !.date = toISOString(item.data.date),
                                !.entries = StringifyEntries(item.data.entries)],
     timestamp |-> item.timestamp,
     ttl |-> item.ttl]

\* loadFromStorage: JSON.parse, then only data.date is turned back into a Date.
Deserialize(stored) ==
    [data |-> [stored.data EXCEPT !.date = newDate(stored.data.date)],
     timestamp |-> stored.timestamp,
     ttl |-> stored.ttl]

\* String.prototype.includes
includes(key, pattern) ==
    \E i \in 0..(Len(key) - Len(pattern)) :
        SubSeq(key, i + 1, i + Len(pattern)) = pattern

\* ---------------------------------------------------------------- state
VARIABLES
    options,      \* Required<CacheOptions>: ttl, maxSize, persistent
    storeDefined, \* typeof localStorage !== 'undefined'
    localStorage, \* the 'brickcharts-' keys of localStorage: key -> stored text
    memoryCache,  \* Map<string, CacheItem> in insertion order
    now,          \* Date.now()
    lastOp,       \* the last call made and how it ended
    searchIndex,    \* SearchEngine: Map<string, ChartEntry[]>
    chartDataCache, \* SearchEngine: Map<string, ChartData>
    config,       \* BrickCharts: the configuration given at construction
    fetched,      \* per cache key, the chart getChart last stored and when
    inFlight      \* the get calls suspended at their await, oldest first

engineVars == <<searchIndex, chartDataCache>>

facadeVars == <<config, fetched>>

vars == <<options, storeDefined, localStorage, memoryCache, now, lastOp,
          engineVars, facadeVars, inFlight>>

\* ------------------------------------------------------------ Map helpers
MapKeys(m) == { m[i].key : i \in 1..Len(m) }

MapHas(m, k) == k \in MapKeys(m)

MapGet(m, k) == (CHOOSE i \in 1..Len(m) : m[i].key = k)

MapItem(m, k) == m[MapGet(m, k)].item

\* Map.prototype.set keeps the position of a key that is already present.
MapSet(m, k, item) ==
    IF MapHas(m, k)
    THEN [m EXCEPT ![MapGet(m, k)] = [key |-> k, item |-> item]]
    ELSE Append(m, [key |-> k, item |-> item])

MapDelete(m, k) == SelectSeq(m, LAMBDA e : e.key # k)

\* ------------------------------------------------------------ the store
\* The guard of saveToStorage / delete / clear: persistent and a localStorage.
storeActive == options.persistent /\ storeDefined

StoredKeys(ls) == { k \in Keys : ls[k].type # "absent" }

EmptyStore == [k \in Keys |-> Absent]

\* ------------------------------------------------------------ isExpired
\* Variant: an entry expires as soon as its age reaches ttl.
isExpiredAtTtl(item, t) == t - item.timestamp >= item.ttl

isExpired(item, t) == t - item.timestamp > item.ttl

\* ------------------------------------------------------------ evictOldest
RECURSIVE EvictScan(_, _, _, _)
EvictScan(m, i, oldestKey, oldestTime) ==
    IF i > Len(m) THEN oldestKey
    ELSE IF m[i].item.timestamp < oldestTime
         THEN EvictScan(m, i + 1, m[i].key, m[i].item.timestamp)
         ELSE EvictScan(m, i + 1, oldestKey, oldestTime)

\* Variant: the scan keeps the largest timestamp (evicts the newest entry).
RECURSIVE NewestScan(_, _, _, _)
NewestScan(m, i, newestKey, newestTime) ==
    IF i > Len(m) THEN newestKey
    ELSE IF m[i].item.timestamp > newestTime
         THEN NewestScan(m, i + 1, m[i].key, m[i].item.timestamp)
         ELSE NewestScan(m, i + 1, newestKey, newestTime)

newestKeyOf(m, t) == NewestScan(m, 1, NoKey, -1)

oldestKeyOf(m, t) == EvictScan(m, 1, NoKey, t)

evictOldest(m, t) ==
    IF oldestKeyOf(m, t) # NoKey THEN MapDelete(m, oldestKeyOf(m, t)) ELSE m

\* ---------------------------------------------------------------- lastOp
Op(op, key, arg, r) ==
    [op |-> op, key |-> key, arg |-> arg, ret |-> r.ret, threw |-> r.threw,
     path |-> r.path, fault |-> r.fault, evicted |-> r.evicted]

NoOp(op) ==
    [op |-> op, key |-> NoKey, arg |-> Void, ret |-> Void, threw |-> FALSE,
     path |-> "none", fault |-> FALSE, evicted |-> NoKey]

\* ---------------------------------------------------------- saveToStorage
\* fault: localStorage.setItem throws (quota exceeded, storage disabled); the
\* catch logs it and the call returns normally.
\* Variant: no try/catch around setItem.
saveToStorageNoCatch(ls, k, item, fault) ==
    IF ~storeDefined THEN [ls |-> ls, threw |-> FALSE]
    ELSE IF fault THEN [ls |-> ls, threw |-> TRUE]
    ELSE [ls |-> [ls EXCEPT ![k] = Serialize(item)], threw |-> FALSE]

saveToStorage(ls, k, item, fault) ==
    IF ~storeDefined THEN [ls |-> ls, threw |-> FALSE]
    ELSE IF fault THEN [ls |-> ls, threw |-> FALSE]
    ELSE [ls |-> [ls EXCEPT ![k] = Serialize(item)], threw |-> FALSE]

\* ---------------------------------------------------------------- set
\* The key that left the Map between m and m1, if any.
evictedKey(m, m1) ==
    IF MapKeys(m) \ MapKeys(m1) = {} THEN NoKey
    ELSE CHOOSE k \in MapKeys(m) \ MapKeys(m1) : TRUE

\* Variant: a persistent cache writes the item to localStorage only.
SetResultStoreOnly(m, ls, k, v, t, fault) ==
    LET item == [data |-> v, timestamp |-> t, ttl |-> options.ttl]
        s == IF options.persistent THEN saveToStorage(ls, k, item, fault)
             ELSE [ls |-> ls, threw |-> FALSE]
    IN  [mem |-> IF options.persistent THEN m ELSE MapSet(m, k, item),
         ls |-> s.ls, ret |-> Void, threw |-> s.threw, path |-> "room",
         fault |-> storeActive /\ fault, evicted |-> NoKey]

SetResult(m, ls, k, v, t, fault) ==
    LET item == [data |-> v, timestamp |-> t, ttl |-> options.ttl]
        full == Len(m) >= options.maxSize
        m1 == IF full THEN evictOldest(m, t) ELSE m
        m2 == MapSet(m1, k, item)
        s == IF options.persistent THEN saveToStorage(ls, k, item, fault)
             ELSE [ls |-> ls, threw |-> FALSE]
    IN  [mem |-> m2,
         ls |-> s.ls,
         ret |-> Void,
         threw |-> s.threw,   \* rethrown as CacheError by the catch of set
         path |-> IF full THEN "full" ELSE "room",
         fault |-> storeActive /\ fault,
         evicted |-> evictedKey(m, m1)]

\* ---------------------------------------------------------------- delete
\* fault: localStorage.removeItem throws.
DeleteResult(m, ls, k, fault) ==
    [mem |-> MapDelete(m, k),
     ls |-> IF storeActive /\ ~fault THEN [ls EXCEPT ![k] = Absent] ELSE ls,
     ret |-> Void,
     threw |-> storeActive /\ fault,   \* no try/catch in delete
     path |-> "none",
     fault |-> storeActive /\ fault,
     evicted |-> NoKey]

\* ------------------------------------------------------- loadFromStorage
\* The single-key branch. fault: localStorage.getItem throws. A stored text
\* that JSON.parse cannot decode throws as well; both are caught and give null.
loadFromStorage(ls, k, fault) ==
    IF ~storeDefined THEN Null
    ELSE IF fault THEN Null
    ELSE IF ls[k].type = "absent" THEN Null
    ELSE IF ls[k].type = "corrupt" THEN Null
    ELSE Deserialize(ls[k])

\* ---------------------------------------------------------------- get
\* catch (error) of get: whatever was thrown inside is logged, and get
\* returns null.
\* Variant: the rejection of delete escapes get.
getRethrow(threw) == threw

getCatch(threw) == FALSE

\* fault: "none", "getItem" (the read throws) or "removeItem" (the removal of
\* an expired entry throws).
GetResult(m, ls, k, t, fault) ==
    LET reads == ~MapHas(m, k) /\ options.persistent
        loadedItem == IF reads THEN loadFromStorage(ls, k, fault = "getItem")
                      ELSE Null
        m1 == IF loadedItem # Null THEN MapSet(m, k, loadedItem) ELSE m
        readFault == reads /\ storeDefined /\ fault = "getItem"
    IN  IF ~MapHas(m1, k)
        THEN [mem |-> m1, ls |-> ls, ret |-> Null, threw |-> FALSE,
              path |-> "miss", fault |-> readFault, evicted |-> NoKey]
        ELSE IF isExpired(MapItem(m1, k), t)
        THEN LET d == DeleteResult(m1, ls, k, fault = "removeItem")
             IN  [mem |-> d.mem, ls |-> d.ls, ret |-> Null,
                  threw |-> getCatch(d.threw),
                  path |-> "expired", fault |-> d.fault, evicted |-> NoKey]
        ELSE [mem |-> m1, ls |-> ls, ret |-> MapItem(m1, k).data,
              threw |-> FALSE, path |-> "hit", fault |-> FALSE,
              evicted |-> NoKey]

\* ------------------------------------------------------- clearByPattern
\* The keys of memoryCache that include the pattern, in Map order.
keysToDelete(m, pattern) ==
    LET hits == SelectSeq(m, LAMBDA e : includes(e.key, pattern))
    IN  [i \in 1..Len(hits) |-> hits[i].key]

\* The deletion loop; failAt = i > 0: the i-th removeItem throws and the
\* rejection of that delete ends the loop.
RECURSIVE DeleteLoop(_, _, _, _, _)
DeleteLoop(m, ls, ks, i, failAt) ==
    IF i > Len(ks)
    THEN [mem |-> m, ls |-> ls, ret |-> Void, threw |-> FALSE, path |-> "none",
          fault |-> FALSE, evicted |-> NoKey]
    ELSE LET d == DeleteResult(m, ls, ks[i], i = failAt)
         IN  IF d.threw THEN d ELSE DeleteLoop(d.mem, d.ls, ks, i + 1, failAt)

ClearByPatternResult(m, ls, pattern, failAt) ==
    DeleteLoop(m, ls, keysToDelete(m, pattern), 1, failAt)

\* ---------------------------------------------------------------- clear
\* fault: Object.keys(localStorage) or one removeItem throws, after the keys
\* in `removed` have been removed (the enumeration order of localStorage is
\* the browser's).
\* Variant: clear empties the Map and leaves localStorage alone.
ClearMemoryOnly(m, ls, fault, removed) ==
    [mem |-> <<>>, ls |-> ls, ret |-> Void, threw |-> FALSE,
     path |-> IF StoredKeys(ls) \ MapKeys(m) # {} THEN "storeOnly" ELSE "none",
     fault |-> FALSE, evicted |-> NoKey]

ClearResult(m, ls, fault, removed) ==
    [mem |-> <<>>,
     ls |-> IF ~storeActive THEN ls
            ELSE IF fault THEN [k \in Keys |-> IF k \in removed THEN Absent ELSE ls[k]]
            ELSE EmptyStore,
     ret |-> Void,
     threw |-> storeActive /\ fault,   \* no try/catch in clear
     path |-> IF StoredKeys(ls) \ MapKeys(m) # {} THEN "storeOnly" ELSE "none",
     fault |-> storeActive /\ fault,
     evicted |-> NoKey]

\* ---------------------------------------------------------------- getStats
RECURSIVE CountExpired(_, _, _)
CountExpired(m, i, t) ==
    IF i > Len(m) THEN 0
    ELSE (IF isExpired(m[i].item, t) THEN 1 ELSE 0) + CountExpired(m, i + 1, t)

\* Variant: getStats sweeps the expired entries it counts.
GetStatsSweep(m, t) ==
    [mem |-> SelectSeq(m, LAMBDA e : ~isExpired(e.item, t)),
     ret |-> [totalItems |-> Len(m),
              validItems |-> Len(m) - CountExpired(m, 1, t),
              expiredItems |-> CountExpired(m, 1, t),
              maxSize |-> options.maxSize,
              persistent |-> options.persistent,
              ttl |-> options.ttl],
     threw |-> FALSE, path |-> "none", fault |-> FALSE, evicted |-> NoKey]

GetStatsResult(m, t) ==
    [mem |-> m,
     ret |-> [totalItems |-> Len(m),
              validItems |-> Len(m) - CountExpired(m, 1, t),
              expiredItems |-> CountExpired(m, 1, t),
              maxSize |-> options.maxSize,
              persistent |-> options.persistent,
              ttl |-> options.ttl],
     threw |-> FALSE, path |-> "none", fault |-> FALSE, evicted |-> NoKey]

\* ------------------------------------------------------------ constructor
\* loadFromStorage() without a key: every stored item that decodes and is
\* not expired enters memoryCache, in the order `order` of Object.keys.
RECURSIVE LoadAll(_, _, _, _, _)
LoadAll(m, ls, order, i, t) ==
    IF i > Len(order) THEN m
    ELSE LET item == loadFromStorage(ls, order[i], FALSE)
         IN  IF item # Null /\ ~isExpired(item, t)
             THEN LoadAll(MapSet(m, order[i], item), ls, order, i + 1, t)
             ELSE LoadAll(m, ls, order, i + 1, t)

\* fault: Object.keys(localStorage) throws; the catch leaves memory empty.
ConstructorResult(ls, order, t, fault) ==
    IF options.persistent /\ storeDefined /\ ~fault
    THEN LoadAll(<<>>, ls, order, 1, t)
    ELSE <<>>

Orders(S) ==
    { o \in [1..Cardinality(S) -> S] : \A i, j \in 1..Cardinality(S) : o[i] = o[j] => i = j }

\* BrickCharts constructor defaults.
DefaultConfig == [enableCache |-> TRUE]

NeverFetched == [k \in Keys |-> Null]

\* ---------------------------------------------------------------- actions
\* new ChartCache({persistent: false}), or a runtime without localStorage.
InitMem ==
    /\ options \in [ttl : 1..MaxTtl, maxSize : 1..MaxSizeLimit, persistent : {FALSE}]
    /\ storeDefined = FALSE
    /\ localStorage = EmptyStore
    /\ memoryCache = <<>>
    /\ now = 0
    /\ lastOp = NoOp("new")
    /\ searchIndex = <<>>
    /\ chartDataCache = <<>>
    /\ config = DefaultConfig
    /\ fetched = NeverFetched
    /\ inFlight = <<>>

\* new ChartCache({persistent: true}) in a browser whose localStorage holds
\* no 'brickcharts-' key yet.
InitStore ==
    /\ options \in [ttl : StoreTtls, maxSize : StoreSizes, persistent : {TRUE}]
    /\ storeDefined = TRUE
    /\ localStorage = EmptyStore
    /\ memoryCache = <<>>
    /\ now = 0
    /\ lastOp = NoOp("new")
    /\ searchIndex = <<>>
    /\ chartDataCache = <<>>
    /\ config = DefaultConfig
    /\ fetched = NeverFetched
    /\ inFlight = <<>>

Set(k, v, fault) ==
    LET r == SetResult(memoryCache, localStorage, k, v, now, fault)
    IN  /\ memoryCache' = r.mem
        /\ localStorage' = r.ls
        /\ lastOp' = Op("set", k, v, r)
        /\ UNCHANGED <<options, storeDefined, now>>
        /\ UNCHANGED <<engineVars, facadeVars, inFlight>>

Get(k, fault) ==
    LET r == GetResult(memoryCache, localStorage, k, now, fault)
    IN  /\ memoryCache' = r.mem
        /\ localStorage' = r.ls
        /\ lastOp' = Op("get", k,
                IF lastOp.op = "set" /\ lastOp.key = k /\ ~lastOp.threw
                THEN lastOp.arg ELSE Void, r)
        /\ UNCHANGED <<options, storeDefined, now>>
        /\ UNCHANGED <<engineVars, facadeVars, inFlight>>

Delete(k, fault) ==
    LET r == DeleteResult(memoryCache, localStorage, k, fault)
    IN  /\ memoryCache' = r.mem
        /\ localStorage' = r.ls
        /\ lastOp' = Op("delete", k, Void, r)
        /\ UNCHANGED <<options, storeDefined, now>>
        /\ UNCHANGED <<engineVars, facadeVars, inFlight>>

ClearByPattern(pattern, failAt) ==
    LET r == ClearByPatternResult(memoryCache, localStorage, pattern, failAt)
    IN  /\ memoryCache' = r.mem
        /\ localStorage' = r.ls
        /\ lastOp' = Op("clearByPattern", NoKey, pattern, r)
        /\ UNCHANGED <<options, storeDefined, now>>
        /\ UNCHANGED <<engineVars, facadeVars, inFlight>>

Clear(fault, removed) ==
    LET r == ClearResult(memoryCache, localStorage, fault, removed)
    IN  /\ memoryCache' = r.mem
        /\ localStorage' = r.ls
        /\ lastOp' = Op("clear", NoKey, Void, r)
        /\ UNCHANGED <<options, storeDefined, now>>
        /\ UNCHANGED <<engineVars, facadeVars, inFlight>>

GetStats ==
    LET r == GetStatsResult(memoryCache, now)
    IN  /\ memoryCache' = r.mem
        /\ lastOp' = Op("getStats", NoKey, Void, r)
        /\ UNCHANGED <<options, storeDefined, localStorage, now>>
        /\ UNCHANGED <<engineVars, facadeVars, inFlight>>

\* A new ChartCache with the same options over the same localStorage (the
\* page is loaded again).
Constructor(order, fault) ==
    /\ memoryCache' = ConstructorResult(localStorage, order, now, fault)
    /\ lastOp' = NoOp("new")
    /\ UNCHANGED <<options, storeDefined, localStorage, now>>
    /\ UNCHANGED <<engineVars, facadeVars, inFlight>>

\* Date.now() advances by a millisecond.
Tick ==
    /\ now < MaxTime
    /\ now' = now + 1
    /\ lastOp' = NoOp("tick")
    /\ UNCHANGED <<options, storeDefined, localStorage, memoryCache>>
    /\ UNCHANGED <<engineVars, facadeVars, inFlight>>

\* Another writer of the same origin leaves a text under a 'brickcharts-' key
\* that JSON.parse rejects.
ExternalWrite(k) ==
    /\ storeDefined
    /\ localStorage' = [localStorage EXCEPT ![k] = Corrupt]
    /\ lastOp' = NoOp("external")
    /\ UNCHANGED <<options, storeDefined, memoryCache, now>>
    /\ UNCHANGED <<engineVars, facadeVars, inFlight>>

\* The calls made on a cache without a backing store.
NextMem ==
    \/ \E k \in Keys, v \in ChartDatas : Set(k, v, FALSE)
    \/ \E k \in Keys : Get(k, "none")
    \/ \E k \in Keys : Delete(k, FALSE)
    \/ \E pattern \in Patterns : ClearByPattern(pattern, 0)
    \/ Clear(FALSE, {})
    \/ GetStats
    \/ Tick

SpecMem == InitMem /\ [][NextMem]_vars

\* The calls made on a persistent cache, with the failures of localStorage.
NextStore ==
    \/ \E k \in StoreKeys, v \in ChartDatas, fault \in BOOLEAN : Set(k, v, fault)
    \/ \E k \in StoreKeys, fault \in {"none", "getItem", "removeItem"} : Get(k, fault)
    \/ \E k \in StoreKeys, fault \in BOOLEAN : Delete(k, fault)
    \/ \E pattern \in StorePatterns :
          \E failAt \in 0..Len(keysToDelete(memoryCache, pattern)) :
             ClearByPattern(pattern, failAt)
    \/ \E fault \in BOOLEAN :
          \E removed \in (IF fault THEN SUBSET StoredKeys(localStorage) ELSE {{}}) :
             Clear(fault, removed)
    \/ GetStats
    \/ \E order \in Orders(StoredKeys(localStorage)), fault \in BOOLEAN :
          Constructor(order, fault)
    \/ Tick
    \/ \E k \in StoreKeys : ExternalWrite(k)

SpecStore == InitStore /\ [][NextStore]_vars

\* The calls made on a persistent cache whose localStorage never fails.
NextReliable ==
    \/ \E k \in StoreKeys, v \in ChartDatas : Set(k, v, FALSE)
    \/ \E k \in StoreKeys : Get(k, "none")
    \/ \E k \in StoreKeys : Delete(k, FALSE)
    \/ \E pattern \in StorePatterns : ClearByPattern(pattern, 0)
    \/ Clear(FALSE, {})
    \/ GetStats
    \/ \E order \in Orders(StoredKeys(localStorage)) : Constructor(order, FALSE)
    \/ Tick

SpecReliable == InitStore /\ [][NextReliable]_vars

\* ------------------------------------------------------------ get, suspended
\* get(key) on a persistent cache that misses memory runs up to
\* `await this.loadFromStorage(key)`: the store has been read (loadFromStorage
\* has no await of its own on this path) and the rest of get waits its turn.
GetBegin(k) ==
    /\ ~MapHas(memoryCache, k)
    /\ options.persistent
    /\ Len(inFlight) < MaxInFlight
    /\ inFlight' = Append(inFlight,
                          [key |-> k,
                           loadedItem |-> loadFromStorage(localStorage, k, FALSE)])
    /\ lastOp' = NoOp("getBegin")
    /\ UNCHANGED <<options, storeDefined, localStorage, memoryCache, now>>
    /\ UNCHANGED <<engineVars, facadeVars>>

\* The rest of get after the await, on the Map and the store as they are by
\* then: the loaded item is put into the Map and is the item get goes on with.
GetResumeResult(m, ls, k, loadedItem, t) ==
    LET m1 == IF loadedItem # Null THEN MapSet(m, k, loadedItem) ELSE m
    IN  IF loadedItem = Null
        THEN [mem |-> m1, ls |-> ls, ret |-> Null, threw |-> FALSE,
              path |-> "miss", fault |-> FALSE, evicted |-> NoKey]
        ELSE IF isExpired(loadedItem, t)
        THEN LET d == DeleteResult(m1, ls, k, FALSE)
             IN  [mem |-> d.mem, ls |-> d.ls, ret |-> Null,
                  threw |-> getCatch(d.threw),
                  path |-> "expired", fault |-> d.fault, evicted |-> NoKey]
        ELSE [mem |-> m1, ls |-> ls, ret |-> loadedItem.data,
              threw |-> FALSE, path |-> "hit", fault |-> FALSE,
              evicted |-> NoKey]

\* The oldest suspended get runs to its end.  arg is the value that a set of
\* the same key, made just before, had left in the cache.
GetResume ==
    /\ inFlight # <<>>
    /\ LET call == Head(inFlight)
           r == GetResumeResult(memoryCache, localStorage, call.key,
                                call.loadedItem, now)
       IN  /\ memoryCache' = r.mem
           /\ localStorage' = r.ls
           /\ lastOp' = Op("getResume", call.key,
                   IF lastOp.op = "set" /\ lastOp.key = call.key /\ ~lastOp.threw
                   THEN lastOp.arg ELSE Void, r)
    /\ inFlight' = Tail(inFlight)
    /\ UNCHANGED <<options, storeDefined, now>>
    /\ UNCHANGED <<engineVars, facadeVars>>

\* The calls made on a persistent cache by tasks that do not wait for one
\* another: a get may be overtaken, at its await, by other calls.  set does
\* all its work on the Map and the store before its own await.
NextRace ==
    \/ \E k \in StoreKeys, v \in ChartDatas : Set(k, v, FALSE)
    \/ \E k \in StoreKeys : Get(k, "none")
    \/ \E k \in StoreKeys : GetBegin(k)
    \/ GetResume
    \/ Tick

SpecRace == InitStore /\ [][NextRace]_vars

\* ================================================================ search
\* Model of src/src/search/SearchEngine.ts.  A string is the sequence of its
\* characters; a score or a confidence is a fraction, held exactly.

\* ------------------------------------------------------------ strings
UpperCase == {"A", "B"}

\* String.prototype.toLowerCase, one character
lower(c) == IF c = "A" THEN "a" ELSE IF c = "B" THEN "b" ELSE c

toLowerCase(s) == [i \in 1..Len(s) |-> lower(s[i])]

\* the characters /[^a-z0-9]/ keeps
AlphaNumeric == {"a", "b", "c"}

\* createEntryHash: `${title}-${artist}`.toLowerCase().replace(/[^a-z0-9]/g, '')
createEntryHash(entry) ==
    SelectSeq(toLowerCase(entry.title \o <<"-">> \o entry.artist),
              LAMBDA c : c \in AlphaNumeric)

\* ------------------------------------------------------------ optional values
None == [some |-> FALSE]

Some(v) == [some |-> TRUE, v |-> v]

\* JavaScript truthiness of an optional number: undefined and 0 are falsy.
truthyNumber(x) == x.some /\ x.v # 0

\* JavaScript truthiness of an optional string: undefined and '' are falsy;
\* the empty sequence stands for both.
truthyString(s) == s # <<>>

\* ------------------------------------------------------------ fractions
Frac(n, d) == [num |-> n, den |-> d]

Min2(a, b) == IF a <= b THEN a ELSE b

Max2(a, b) == IF a >= b THEN a ELSE b

\* ------------------------------------------------------------ calculateSimilarity
\* One row of the matrix, filled from left to right: prev is matrix[i - 1],
\* row holds matrix[i][0 .. Len(row) - 1].
RECURSIVE FillRow(_, _, _, _, _)
FillRow(prev, row, i, str1, str2) ==
    LET j == Len(row)
    IN  IF j > Len(str1) THEN row
        ELSE LET cell == IF str2[i] = str1[j]
                         THEN prev[j]
                         ELSE Min2(Min2(prev[j] + 1, row[j] + 1), prev[j + 1] + 1)
             IN  FillRow(prev, Append(row, cell), i, str1, str2)

RECURSIVE FillMatrix(_, _, _, _)
FillMatrix(prev, i, str1, str2) ==
    IF i > Len(str2) THEN prev
    ELSE FillMatrix(FillRow(prev, <<i>>, i, str1, str2), i + 1, str1, str2)

calculateSimilarity(str1, str2) ==
    LET firstRow == [j \in 1..(Len(str1) + 1) |-> j - 1]
        distance == FillMatrix(firstRow, 1, str1, str2)[Len(str1) + 1]
        maxLength == Max2(Len(str1), Len(str2))
    IN  IF maxLength = 0 THEN Frac(1, 1)
        ELSE Frac(maxLength - distance, maxLength)

\* ------------------------------------------------------------ matchText
\* Variant: similarity >= 0.6
atThreshold(similarity) == similarity.num * 10 >= 6 * similarity.den

\* similarity > 0.6
aboveThreshold(similarity) == similarity.num * 10 > 6 * similarity.den

matchText(text, query, fuzzy) ==
    LET lowerText == toLowerCase(text)
        lowerQuery == toLowerCase(query)
        similarity == calculateSimilarity(lowerText, lowerQuery)
    IN  IF lowerText = lowerQuery
        THEN [matchType |-> "exact", confidence |-> Frac(1, 1)]
        ELSE IF includes(lowerText, lowerQuery)
        THEN [matchType |-> "partial",
              confidence |-> Frac(Len(lowerQuery), Len(lowerText))]
        ELSE IF fuzzy /\ aboveThreshold(similarity)
        THEN [matchType |-> "fuzzy", confidence |-> similarity]
        ELSE Null

\* ------------------------------------------------------------ matchText alone
\* The texts and the queries matchText is applied to.
TextChars == {"a", "B"}

QueryChars == {"a", "b", "A"}

Strings(chars, n) == UNION { [1..k -> chars] : k \in 0..n }

Texts == Strings(TextChars, MaxTextLen)

TextQueries == Strings(QueryChars, MaxQueryLen) \ {<<>>}

MatchOp(op, text, query, fuzzy, ret) ==
    [op |-> op, text |-> text, query |-> query, fuzzy |-> fuzzy, ret |-> ret]

\* A cache that nobody calls: the state new ChartCache({persistent: false})
\* leaves.
CacheIdle ==
    /\ options = [ttl |-> MaxTtl, maxSize |-> MaxSizeLimit, persistent |-> FALSE]
    /\ storeDefined = FALSE
    /\ localStorage = EmptyStore
    /\ memoryCache = <<>>
    /\ config = DefaultConfig
    /\ fetched = NeverFetched
    /\ inFlight = <<>>

\* A search engine that nobody calls: the state new SearchEngine() leaves.
EngineIdle ==
    /\ searchIndex = <<>>
    /\ chartDataCache = <<>>

InitMatch ==
    /\ CacheIdle
    /\ EngineIdle
    /\ now = 0
    /\ lastOp \in { MatchOp("input", text, query, fuzzy, Void) :
                       text \in Texts, query \in TextQueries, fuzzy \in BOOLEAN }

MatchText ==
    /\ lastOp.op = "input"
    /\ lastOp' = MatchOp("matchText", lastOp.text, lastOp.query, lastOp.fuzzy,
                         matchText(lastOp.text, lastOp.query, lastOp.fuzzy))
    /\ UNCHANGED <<options, storeDefined, localStorage, memoryCache, now>>
    /\ UNCHANGED <<engineVars, facadeVars, inFlight>>

NextMatch == MatchText

SpecMatch == InitMatch /\ [][NextMatch]_vars

\* ------------------------------------------------------------ the corpus
\* A ChartEntry, with the fields the engine reads.  An absent album is the
\* empty string; the optional numbers are None or Some(n).
Entry(rank, title, artist, album, lastWeek, peakPosition, weeksOnChart) ==
    [rank |-> rank, title |-> title, artist |-> artist, album |-> album,
     lastWeek |-> lastWeek, peakPosition |-> peakPosition,
     weeksOnChart |-> weeksOnChart]

\* This week's Hot 100: two spellings of one track by one artist.
HotEntries ==
    << Entry(1, <<"a", " ", "b">>, <<"A", "b">>, <<"c">>, Some(2), Some(1), Some(3)),
       Entry(2, <<"a", "b">>, <<"a", "B">>, <<>>, None, None, None) >>

\* A Billboard 200 of six weeks ago: ranks 101 and 200, a weeksOnChart of 0.
AlbumEntries ==
    << Entry(101, <<"c">>, <<"A", "b">>, <<"c">>, Some(99), Some(101), Some(0)),
       Entry(200, <<"b">>, <<"A", "b", "b", "a">>, <<"B", "c">>, Some(150), Some(150), Some(5)) >>

\* This week's Hot 100 as fetched again: a new entry at the top, with no week
\* on the chart behind it.
RefreshedEntries ==
    << Entry(1, <<"b", "a">>, <<"b", "a">>, <<"c">>, None, Some(1), Some(0)),
       Entry(2, <<"c">>, <<"b", "a">>, <<>>, Some(1), Some(1), Some(5)) >>

Chart(source, chartType, day, entries) ==
    [source |-> source, chartType |-> chartType, date |-> DateObj(day),
     entries |-> entries]

Charts ==
    { Chart("billboard", "hot-100", 0, HotEntries),
      Chart("billboard", "billboard-200", 0 - 40, AlbumEntries),
      Chart("billboard", "hot-100", 0, RefreshedEntries) }

Entries == UNION { { c.entries[i] : i \in 1..Len(c.entries) } : c \in Charts }

\* Date.prototype.getTime, in days
getTime(d) == d.iso

\* ------------------------------------------------------------ queries
\* A SearchQuery.  An absent text filter is the empty string, which the code
\* treats alike; source and chartType likewise.
BaseQuery ==
    [title |-> <<>>, artist |-> <<>>, album |-> <<>>, fuzzy |-> FALSE,
     rankRange |-> None, weeksRange |-> None, peakRange |-> None,
     newEntriesOnly |-> FALSE, limit |-> None,
     source |-> "", chartType |-> "", dateRange |-> None]

Range(min, max) == Some([min |-> min, max |-> max])

QueryTitles == { <<>>, <<"a", "b">> }

QueryArtists == { <<>>, <<"a">>, <<"B", "a">> }

\* A misspelt artist, for the fuzzy queries.
Misspelt == <<"b", "a", "b">>

QueryAlbums == { <<>>, <<"B">> }

RankRanges == { Range(1, 2), Range(101, 200), Range(2, 1) }

WeeksRanges == { Range(1, 3), Range(4, 9) }

PeakRanges == { Range(1, 1), Range(2, 150) }

Limits == { Some(n) : n \in 0..MaxLimit }

\* The queries that filter by text.
Queries ==
    { [BaseQuery EXCEPT !.title = t, !.artist = a, !.album = al] :
        t \in QueryTitles, a \in QueryArtists, al \in QueryAlbums }
    \cup { [BaseQuery EXCEPT !.title = t, !.artist = Misspelt, !.fuzzy = f] :
              t \in QueryTitles, f \in BOOLEAN }

\* The queries that filter by rank, weeks, peak, chart and limit.
FilterQueries ==
    { [BaseQuery EXCEPT !.rankRange = r] : r \in RankRanges }
    \cup { [BaseQuery EXCEPT !.weeksRange = r] : r \in WeeksRanges }
    \cup { [BaseQuery EXCEPT !.peakRange = r] : r \in PeakRanges }
    \cup { [BaseQuery EXCEPT !.artist = a, !.limit = l] :
              a \in {<<>>, <<"a">>}, l \in Limits }
    \cup { [BaseQuery EXCEPT !.newEntriesOnly = TRUE],
           [BaseQuery EXCEPT !.source = "lastfm"],
           [BaseQuery EXCEPT !.chartType = "hot-100"],
           [BaseQuery EXCEPT !.dateRange =
               Some([start |-> DateObj(0 - 30), end |-> DateObj(0)])] }

\* ------------------------------------------------------------ the index
FieldName(field) ==
    CASE field = "title" -> <<"t", "i", "t", "l", "e">>
      [] field = "artist" -> <<"a", "r", "t", "i", "s", "t">>
      [] field = "album" -> <<"a", "l", "b", "u", "m">>
      [] field = "full" -> <<"f", "u", "l", "l">>

\* String.prototype.startsWith
startsWith(s, prefix) ==
    Len(prefix) <= Len(s) /\ SubSeq(s, 1, Len(prefix)) = prefix

\* `${field}:${value}`
IndexKey(field, value) == FieldName(field) \o <<":">> \o value

\* Variant: an entry already in the bucket is not pushed again.
addToIndexOnce(index, field, value, entry) ==
    IF MapHas(index, IndexKey(field, value))
    THEN (IF \E i \in 1..Len(MapItem(index, IndexKey(field, value))) :
                MapItem(index, IndexKey(field, value))[i] = entry
          THEN index
          ELSE MapSet(index, IndexKey(field, value),
                      Append(MapItem(index, IndexKey(field, value)), entry)))
    ELSE MapSet(index, IndexKey(field, value), <<entry>>)

addToIndex(index, field, value, entry) ==
    LET key == IndexKey(field, value)
    IN  IF MapHas(index, key)
        THEN MapSet(index, key, Append(MapItem(index, key), entry))
        ELSE MapSet(index, key, <<entry>>)

indexEntry(index, entry) ==
    LET byTitle == addToIndex(index, "title", toLowerCase(entry.title), entry)
        byArtist == addToIndex(byTitle, "artist", toLowerCase(entry.artist), entry)
        byAlbum == IF truthyString(entry.album)
                   THEN addToIndex(byArtist, "album", toLowerCase(entry.album), entry)
                   ELSE byArtist
    IN  addToIndex(byAlbum, "full",
                   toLowerCase(entry.title \o <<" ">> \o entry.artist), entry)

RECURSIVE indexEntries(_, _, _)
indexEntries(index, entries, i) ==
    IF i > Len(entries) THEN index
    ELSE indexEntries(indexEntry(index, entries[i]), entries, i + 1)

\* `${chart.source}-${chart.chartType}-${chart.date.toISOString()}`
chartKeyOf(chart) == <<chart.source, "-", chart.chartType, "-", toISOString(chart.date)>>

RECURSIVE indexChartData(_, _, _, _)
indexChartData(index, cache, chartData, i) ==
    IF i > Len(chartData) THEN [index |-> index, cache |-> cache]
    ELSE indexChartData(indexEntries(index, chartData[i].entries, 1),
                        MapSet(cache, chartKeyOf(chartData[i]), chartData[i]),
                        chartData, i + 1)

\* The number of entries pushed into the index since it was last cleared.
RECURSIVE IndexedCount(_, _)
IndexedCount(index, i) ==
    IF i > Len(index) THEN 0
    ELSE (IF startsWith(index[i].key, IndexKey("full", <<>>))
          THEN Len(index[i].item) ELSE 0)
         + IndexedCount(index, i + 1)

\* ------------------------------------------------------------ getRelevantCharts
relevant(chart, query) ==
    /\ ~(query.source # "" /\ chart.source # query.source)
    /\ ~(query.chartType # "" /\ chart.chartType # query.chartType)
    /\ ~(query.dateRange.some
         /\ (getTime(chart.date) < getTime(query.dateRange.v.start)
             \/ getTime(chart.date) > getTime(query.dateRange.v.end)))

getRelevantCharts(cache, query) ==
    LET all == [i \in 1..Len(cache) |-> cache[i].item]
    IN  SelectSeq(all, LAMBDA chart : relevant(chart, query))

\* ------------------------------------------------------------ scoreEntry
\* A score is held as a whole number of 1/ScoreUnit: every division the code
\* makes (by 100, by 30, by a text length of at most 5) is exact in it.
ScoreUnit == 100 * 30 * 60

scaled(confidence) == (ScoreUnit * confidence.num) \div confidence.den

outside(value, range) == value < range.v.min \/ value > range.v.max

\* (101 - entry.rank) / 100
positionBoost(entry) == (ScoreUnit * (101 - entry.rank)) \div 100

\* Variant: the recency term is added without the max(0, .).
recencyBoostUnclamped(chart, t) ==
    (ScoreUnit * (30 - (t - getTime(chart.date)))) \div 30

\* Math.max(0, (30 - daysSinceChart) / 30)
recencyBoost(chart, t) ==
    LET daysSinceChart == t - getTime(chart.date)
    IN  Max2(0, (ScoreUnit * (30 - daysSinceChart)) \div 30)

SearchMatch(field, value, match) ==
    [field |-> field, value |-> value, matchType |-> match.matchType,
     confidence |-> match.confidence]

\* else if (!query.fuzzy) return null
titleRejects(query, match) == match = Null /\ ~query.fuzzy

\* Variant: an artist miss rejects in strict mode, title filter or not.
artistRejectsAlways(query, match) == match = Null /\ ~query.fuzzy

\* else if (!query.fuzzy && !query.title) return null
artistRejects(query, match) ==
    match = Null /\ ~query.fuzzy /\ ~truthyString(query.title)

scoreEntry(entry, chart, query, t) ==
    LET titleMatch == IF truthyString(query.title)
                      THEN matchText(entry.title, query.title, query.fuzzy)
                      ELSE Null
        artistMatch == IF truthyString(query.artist)
                       THEN matchText(entry.artist, query.artist, query.fuzzy)
                       ELSE Null
        albumMatch == IF truthyString(query.album) /\ truthyString(entry.album)
                      THEN matchText(entry.album, query.album, query.fuzzy)
                      ELSE Null
        matches ==
            (IF titleMatch # Null
             THEN <<SearchMatch("title", entry.title, titleMatch)>> ELSE <<>>)
            \o (IF artistMatch # Null
                THEN <<SearchMatch("artist", entry.artist, artistMatch)>> ELSE <<>>)
            \o (IF albumMatch # Null
                THEN <<SearchMatch("album", entry.album, albumMatch)>> ELSE <<>>)
        score ==
            (IF titleMatch # Null THEN 3 * scaled(titleMatch.confidence) ELSE 0)
            + (IF artistMatch # Null THEN 2 * scaled(artistMatch.confidence) ELSE 0)
            + (IF albumMatch # Null THEN 1 * scaled(albumMatch.confidence) ELSE 0)
            + positionBoost(entry)
            + recencyBoost(chart, t)
    IN  IF query.rankRange.some /\ outside(entry.rank, query.rankRange)
        THEN Null
        ELSE IF query.weeksRange.some /\ truthyNumber(entry.weeksOnChart)
                /\ outside(entry.weeksOnChart.v, query.weeksRange)
        THEN Null
        ELSE IF query.peakRange.some /\ truthyNumber(entry.peakPosition)
                /\ outside(entry.peakPosition.v, query.peakRange)
        THEN Null
        ELSE IF query.newEntriesOnly /\ truthyNumber(entry.lastWeek)
        THEN Null
        ELSE IF truthyString(query.title) /\ titleRejects(query, titleMatch)
        THEN Null
        ELSE IF truthyString(query.artist) /\ artistRejects(query, artistMatch)
        THEN Null
        ELSE IF score = 0 /\ matches = <<>>
        THEN Null
        ELSE [entry |-> entry, chartData |-> chart, score |-> score,
              matches |-> matches]

\* ------------------------------------------------------------ search
\* chart.entries.forEach inside relevantCharts.forEach: the results pushed,
\* in the order the entries are visited.
RECURSIVE scoreEntries(_, _, _, _)
scoreEntries(chart, query, t, i) ==
    IF i > Len(chart.entries) THEN <<>>
    ELSE LET searchResult == scoreEntry(chart.entries[i], chart, query, t)
         IN  (IF searchResult # Null /\ searchResult.score > 0
              THEN <<searchResult>> ELSE <<>>)
             \o scoreEntries(chart, query, t, i + 1)

RECURSIVE scoreCharts(_, _, _, _)
scoreCharts(charts, query, t, i) ==
    IF i > Len(charts) THEN <<>>
    ELSE scoreEntries(charts[i], query, t, 1) \o scoreCharts(charts, query, t, i + 1)

\* Array.prototype.sort with (a, b) => b.score - a.score: stable, so a result
\* goes behind every result whose score is at least its own.
RECURSIVE insertByScore(_, _)
insertByScore(sorted, result) ==
    IF sorted = <<>> THEN <<result>>
    ELSE IF Head(sorted).score >= result.score
    THEN <<Head(sorted)>> \o insertByScore(Tail(sorted), result)
    ELSE <<result>> \o sorted

RECURSIVE sortByScore(_, _, _)
sortByScore(results, sorted, i) ==
    IF i > Len(results) THEN sorted
    ELSE sortByScore(results, insertByScore(sorted, results[i]), i + 1)

\* Array.prototype.slice(0, n) for n >= 0
slice(s, n) == SubSeq(s, 1, Min2(n, Len(s)))

hasMatchType(result, matchType) ==
    \E i \in 1..Len(result.matches) : result.matches[i].matchType = matchType

countWhere(results, P(_)) == Len(SelectSeq(results, P))

\* Variant: search drops the charts it has scanned.
searchConsuming(index, cache, query, t) ==
    [results |-> sortByScore(scoreCharts(getRelevantCharts(cache, query), query, t, 1),
                             <<>>, 1),
     stats |-> Void, index |-> index, cache |-> <<>>]

\* search(query) at clock reading t; index and cache are the engine's two
\* maps as the call leaves them.
search(index, cache, query, t) ==
    LET relevantCharts == getRelevantCharts(cache, query)
        results == sortByScore(scoreCharts(relevantCharts, query, t, 1), <<>>, 1)
        limitedResults == IF truthyNumber(query.limit)
                          THEN slice(results, query.limit.v)
                          ELSE results
        stats ==
            [totalResults |-> Len(limitedResults),
             chartsSearched |->
                Cardinality({ <<relevantCharts[i].source, relevantCharts[i].chartType>> :
                                i \in 1..Len(relevantCharts) }),
             exactMatches |-> countWhere(results, LAMBDA r : hasMatchType(r, "exact")),
             partialMatches |->
                countWhere(results, LAMBDA r : ~hasMatchType(r, "exact")
                                               /\ hasMatchType(r, "partial")),
             fuzzyMatches |->
                countWhere(results, LAMBDA r : ~hasMatchType(r, "exact")
                                               /\ ~hasMatchType(r, "partial")
                                               /\ hasMatchType(r, "fuzzy"))]
    IN  [results |-> limitedResults, stats |-> stats,
         index |-> index, cache |-> cache]

\* ------------------------------------------------------------ quickSearch
fieldValue(entry, field) ==
    IF field = "title" THEN entry.title
    ELSE IF field = "artist" THEN entry.artist
    ELSE entry.album

\* Set.prototype.add, the set held in insertion order
setAdd(set, value) ==
    IF \E i \in 1..Len(set) : set[i] = value THEN set ELSE Append(set, value)

RECURSIVE collectValues(_, _, _, _, _)
collectValues(suggestions, entries, field, lowerTerm, i) ==
    IF i > Len(entries) THEN suggestions
    ELSE LET value == fieldValue(entries[i], field)
         IN  collectValues(IF includes(toLowerCase(value), lowerTerm)
                           THEN setAdd(suggestions, value) ELSE suggestions,
                           entries, field, lowerTerm, i + 1)

\* Variant: the scan stops one suggestion short of the limit.
RECURSIVE scanIndexStopEarly(_, _, _, _, _, _)
scanIndexStopEarly(index, suggestions, field, lowerTerm, limit, i) ==
    IF i > Len(index) THEN suggestions
    ELSE LET key == index[i].key
             found == IF startsWith(key, FieldName(field) \o <<":">>)
                         /\ includes(key, lowerTerm)
                      THEN collectValues(suggestions, index[i].item, field, lowerTerm, 1)
                      ELSE suggestions
         IN  IF Len(found) + 1 >= limit THEN found
             ELSE scanIndexStopEarly(index, found, field, lowerTerm, limit, i + 1)

\* for (const [key, entries] of this.searchIndex) { ...; if (size >= limit) break }
RECURSIVE scanIndex(_, _, _, _, _, _)
scanIndex(index, suggestions, field, lowerTerm, limit, i) ==
    IF i > Len(index) THEN suggestions
    ELSE LET key == index[i].key
             found == IF startsWith(key, FieldName(field) \o <<":">>)
                         /\ includes(key, lowerTerm)
                      THEN collectValues(suggestions, index[i].item, field, lowerTerm, 1)
                      ELSE suggestions
         IN  IF Len(found) >= limit THEN found
             ELSE scanIndex(index, found, field, lowerTerm, limit, i + 1)

quickSearch(index, term, field, limit) ==
    slice(scanIndex(index, <<>>, field, toLowerCase(term), limit, 1), limit)

\* ------------------------------------------------------------ findSimilar
\* { artist: entry.artist, fuzzy: true, limit: limit + 1 }
similarQuery(entry, limit) ==
    [BaseQuery EXCEPT !.artist = entry.artist, !.fuzzy = TRUE,
                      !.limit = Some(limit + 1)]

\* Variant: the original is recognised by its exact title and artist.
findSimilarExact(index, cache, entry, limit, t) ==
    slice(SelectSeq(search(index, cache, similarQuery(entry, limit), t).results,
            LAMBDA result : <<result.entry.title, result.entry.artist>>
                            # <<entry.title, entry.artist>>),
          limit)

findSimilar(index, cache, entry, limit, t) ==
    slice(SelectSeq(search(index, cache, similarQuery(entry, limit), t).results,
            LAMBDA result : createEntryHash(result.entry) # createEntryHash(entry)),
          limit)

\* ------------------------------------------------------------ engine actions
\* The last call on the engine: again says that it repeats the search made by
\* the call before it, whose results are before and whose clock was since.
EngineOp(op, arg, ret, again, before, since) ==
    [op |-> op, arg |-> arg, ret |-> ret, at |-> now,
     again |-> again, before |-> before, since |-> since]

FirstOp(op, arg, ret) == EngineOp(op, arg, ret, FALSE, Void, now)

InitSearch ==
    /\ CacheIdle
    /\ EngineIdle
    /\ now = 0
    /\ lastOp = [op |-> "new", arg |-> Void, ret |-> Void, at |-> 0,
                 again |-> FALSE, before |-> Void, since |-> 0]

cacheUntouched ==
    UNCHANGED <<options, storeDefined, localStorage, memoryCache, facadeVars,
                inFlight>>

IndexChartData(chartData) ==
    \E r \in { indexChartData(searchIndex, chartDataCache, chartData, 1) } :
        /\ IndexedCount(r.index, 1) <= MaxIndexed
        /\ searchIndex' = r.index
        /\ chartDataCache' = r.cache
        /\ lastOp' = FirstOp("indexChartData", chartData, Void)
        /\ UNCHANGED now
        /\ cacheUntouched

Search(query) ==
    \E r \in { search(searchIndex, chartDataCache, query, now) } :
        LET again == lastOp.op = "search" /\ lastOp.arg = query
        IN  /\ searchIndex' = r.index
            /\ chartDataCache' = r.cache
            /\ lastOp' = EngineOp("search", query,
                                  [results |-> r.results, stats |-> r.stats], again,
                                  IF again THEN lastOp.ret ELSE Void,
                                  IF again THEN lastOp.at ELSE now)
            /\ UNCHANGED now
            /\ cacheUntouched

QuickSearch(term, field, limit) ==
    \E r \in { quickSearch(searchIndex, term, field, limit) } :
        /\ lastOp' = FirstOp("quickSearch",
                             [term |-> term, field |-> field, limit |-> limit], r)
        /\ UNCHANGED <<engineVars, now>>
        /\ cacheUntouched

FindSimilar(entry, limit) ==
    \E r \in { findSimilar(searchIndex, chartDataCache, entry, limit, now) } :
        /\ lastOp' = FirstOp("findSimilar", [entry |-> entry, limit |-> limit], r)
        /\ UNCHANGED <<engineVars, now>>
        /\ cacheUntouched

ClearIndex ==
    /\ searchIndex' = <<>>
    /\ chartDataCache' = <<>>
    /\ lastOp' = FirstOp("clearIndex", Void, Void)
    /\ UNCHANGED now
    /\ cacheUntouched

\* A day passes between two calls.
NextDay ==
    /\ now < MaxTime
    /\ now' = now + 1
    /\ UNCHANGED <<lastOp, engineVars>>
    /\ cacheUntouched

ChartLists == { <<c>> : c \in Charts }

QuickTerms == { <<"a">>, <<"B">>, <<"t">> }

Fields == {"title", "artist", "album"}

\* The engine indexed, cleared and searched by text.
NextSearch ==
    \/ \E chartData \in ChartLists : IndexChartData(chartData)
    \/ \E query \in Queries : Search(query)
    \/ ClearIndex
    \/ NextDay

SpecSearch == InitSearch /\ [][NextSearch]_vars

\* The engine indexed, cleared and searched by the other filters, all on one
\* day.
NextFilter ==
    \/ \E chartData \in ChartLists : IndexChartData(chartData)
    \/ \E query \in FilterQueries : Search(query)
    \/ ClearIndex

SpecFilter == InitSearch /\ [][NextFilter]_vars

\* The engine indexed, cleared and asked for suggestions and similar entries,
\* all on one day.
NextSuggest ==
    \/ \E chartData \in ChartLists : IndexChartData(chartData)
    \/ \E term \in QuickTerms, field \in Fields, limit \in 0..MaxLimit :
          QuickSearch(term, field, limit)
    \/ \E entry \in Entries, limit \in 0..MaxLimit : FindSimilar(entry, limit)
    \/ ClearIndex

SpecSuggest == InitSearch /\ [][NextSuggest]_vars

\* ================================================================ facade
\* Model of BrickCharts.getChart (src/unnamed/part_008) over ChartDataManager
\* and the cache above.

\* The charts asked for: chart type and source, the type one token per word
\* or hyphen.
Requests ==
    { [chartType |-> <<"top", "-", "tracks">>, source |-> "lastfm"],
      [chartType |-> <<"hot", "-", "100">>, source |-> "billboard"] }

\* Two instants of the same calendar day, as toISOString prints them:
\* the day, 'T', the time.
RequestDates == { DateObj(<<"d1", "T", "t1">>), DateObj(<<"d1", "T", "t2">>) }

\* chartData.date.toISOString().split('T')[0]
dateStrOf(date) == toISOString(date).iso[1]

\* ChartDataManager.generateCacheKey
generateCacheKey(chartData) ==
    <<chartData.source, "-">> \o chartData.chartType \o <<"-", dateStrOf(chartData.date)>>

\* FetchOptions.limit: absent, or a number of entries.
RequestLimits == { None, Some(1) }

\* The ranks of the chart as the provider has it.
ProviderRanks == <<1, 2>>

\* limit: (options.limit || 50): the number of entries the Last.fm request
\* asks for; the Billboard client does not read options.limit.
entriesAsked(source, limit) ==
    IF source = "lastfm"
    THEN Min2(IF truthyNumber(limit) THEN limit.v ELSE 50, Len(ProviderRanks))
    ELSE Len(ProviderRanks)

\* What the source client resolves with: the chart of the type and date asked
\* for, with the entries asked for (normalizeBillboardData,
\* transformToChartData).
clientChart(chartType, source, date, limit) ==
    [chartType |-> chartType, source |-> source, date |-> date,
     entries |-> [i \in 1..entriesAsked(source, limit) |->
                    [rank |-> ProviderRanks[i], chartDate |-> date]]]

\* Variant: forceRefresh does not keep getChart from the cache.
checksCacheDespiteRefresh(useCache, forceRefresh) ==
    config.enableCache /\ useCache

\* this.config.enableCache && options.useCache !== false && !options.forceRefresh
checksCache(useCache, forceRefresh) ==
    config.enableCache /\ useCache /\ ~forceRefresh

\* getChart(chartType, source, {date, limit, useCache, forceRefresh}) on the Map m at
\* clock reading t; clientFails: the client rejects.  useCache TRUE stands for
\* true and for an omitted option.
GetChartResult(m, chartType, source, date, limit, useCache, forceRefresh, clientFails, t) ==
    LET key == generateCacheKey([chartType |-> chartType, source |-> source,
                                 date |-> date])
        looked == checksCache(useCache, forceRefresh)
        cached == GetResult(m, localStorage, key, t, "none")
        m1 == IF looked THEN cached.mem ELSE m
        chartData == clientChart(chartType, source, date, limit)
        stored == SetResult(m1, localStorage, generateCacheKey(chartData),
                            chartData, t, FALSE)
    IN  IF looked /\ cached.ret # Null
        THEN [mem |-> m1, ret |-> cached.ret, threw |-> FALSE,
              path |-> "cache", stored |-> FALSE]
        ELSE IF clientFails
        THEN [mem |-> m1, ret |-> Void, threw |-> TRUE,
              path |-> "client", stored |-> FALSE]
        ELSE IF config.enableCache
        THEN [mem |-> stored.mem, ret |-> chartData, threw |-> FALSE,
              path |-> "client", stored |-> TRUE]
        ELSE [mem |-> m1, ret |-> chartData, threw |-> FALSE,
              path |-> "client", stored |-> FALSE]

\* ------------------------------------------------------------ facade actions
\* new BrickCharts({enableCache, cacheOptions}) where no localStorage exists.
InitFacade ==
    /\ options \in [ttl : 1..MaxTtl, maxSize : 1..MaxSizeLimit, persistent : {FALSE}]
    /\ storeDefined = FALSE
    /\ localStorage = EmptyStore
    /\ memoryCache = <<>>
    /\ now = 0
    /\ config \in [enableCache : BOOLEAN]
    /\ fetched = NeverFetched
    /\ inFlight = <<>>
    /\ EngineIdle
    /\ lastOp = NoOp("new")

\* The call and how it ended; due says that getChart had stored a chart under
\* the call's key no longer than ttl ago, held that the cache still had it;
\* fetched keeps, with the chart stored, the limit it was fetched with.
GetChart(chartType, source, date, limit, useCache, forceRefresh, clientFails) ==
    \E r \in { GetChartResult(memoryCache, chartType, source, date, limit,
                              useCache, forceRefresh, clientFails, now) } :
        LET key == generateCacheKey([chartType |-> chartType, source |-> source,
                                     date |-> date])
            due == fetched[key] # Null /\ now - fetched[key].at <= options.ttl
        IN  /\ memoryCache' = r.mem
            /\ fetched' = IF r.stored
                          THEN [fetched EXCEPT ![key] = [data |-> r.ret, at |-> now,
                                                         limit |-> limit]]
                          ELSE fetched
            /\ lastOp' = [op |-> "getChart", key |-> key,
                          arg |-> [date |-> date, limit |-> limit,
                                   useCache |-> useCache,
                                   forceRefresh |-> forceRefresh],
                          ret |-> r.ret, threw |-> r.threw, path |-> r.path,
                          stored |-> r.stored,
                          due |-> due,
                          held |-> MapHas(memoryCache, key),
                          before |-> fetched[key]]
            /\ UNCHANGED <<options, storeDefined, localStorage, now, config>>
            /\ UNCHANGED <<engineVars, inFlight>>

NextFacade ==
    \/ \E request \in Requests, date \in RequestDates :
          \E useCache \in BOOLEAN, forceRefresh \in BOOLEAN, clientFails \in BOOLEAN :
             GetChart(request.chartType, request.source, date, None, useCache,
                      forceRefresh, clientFails)
    \/ Tick

SpecFacade == InitFacade /\ [][NextFacade]_vars

\* getChart called with and without a limit, by callers that leave useCache
\* alone, against clients that answer.
NextLimit ==
    \/ \E request \in Requests, date \in RequestDates, limit \in RequestLimits :
          \E forceRefresh \in BOOLEAN :
             GetChart(request.chartType, request.source, date, limit, TRUE,
                      forceRefresh, FALSE)
    \/ Tick

SpecLimit == InitFacade /\ [][NextLimit]_vars

\* ------------------------------------------------------------ clearCache
\* The charts the data manager is given to cache: two Last.fm chart types, one
\* named as the other with '-weekly' added (LastFMClient.chartMap), and a
\* Billboard chart.
ManagerRequests ==
    Requests \cup { [chartType |-> <<"top", "-", "tracks", "-", "weekly">>,
                     source |-> "lastfm"] }

ManagerCharts ==
    { clientChart(request.chartType, request.source, date, None) :
        request \in ManagerRequests, date \in RequestDates }

\* `${source}-${chartType}-`
clearCachePattern(chartType, source) == <<source, "-">> \o chartType \o <<"-">>

\* ChartDataManager.clearCache(chartType?, source?): an argument left out is
\* the empty string, falsy like undefined.
ClearCacheResult(m, ls, chartType, source) ==
    IF truthyString(chartType) /\ source # ""
    THEN ClearByPatternResult(m, ls, clearCachePattern(chartType, source), 0)
    ELSE ClearResult(m, ls, FALSE, {})

\* ChartDataManager.cacheChart
CacheChart(chartData) == Set(generateCacheKey(chartData), chartData, FALSE)

\* BrickCharts.clearCache, which hands its arguments to the data manager.
ClearCache(chartType, source) ==
    LET r == ClearCacheResult(memoryCache, localStorage, chartType, source)
    IN  /\ memoryCache' = r.mem
        /\ localStorage' = r.ls
        /\ lastOp' = Op("clearCache", NoKey,
                        [chartType |-> chartType, source |-> source], r)
        /\ UNCHANGED <<options, storeDefined, now>>
        /\ UNCHANGED <<engineVars, facadeVars, inFlight>>

\* The data manager over a cache without a backing store.
NextManager ==
    \/ \E chartData \in ManagerCharts : CacheChart(chartData)
    \/ \E request \in ManagerRequests : ClearCache(request.chartType, request.source)
    \/ \E source \in {"", "lastfm"} : ClearCache(<<>>, source)
    \/ Tick

SpecManager == InitMem /\ [][NextManager]_vars

\* ---------------------------------------------------------------- claims
GetFaults == {"none", "getItem", "removeItem"}

\* What get(k) would return in the current state, whatever localStorage does.
getReportsAbsent(k) ==
    \A f \in GetFaults : GetResult(memoryCache, localStorage, k, now, f).ret = Null

\* C1: on a cache without persistence that starts empty, the number of
\* in-memory entries never exceeds maxSize.
C1_SizeNeverExceedsMaxSize ==
    ~options.persistent => Len(memoryCache) <= options.maxSize

\* C2: an entry that set evicts has the smallest insertion timestamp of the
\* entries held at that moment, and get leaves the timestamp of every entry
\* it keeps as it was.
C2_EvictsSmallestTimestamp ==
    [][ /\ (lastOp'.op = "set" /\ lastOp'.evicted # NoKey) =>
              \A i \in 1..Len(memoryCache) :
                  MapItem(memoryCache, lastOp'.evicted).timestamp
                      <= memoryCache[i].item.timestamp
        /\ lastOp'.op = "get" =>
              \A k \in MapKeys(memoryCache) \cap MapKeys(memoryCache') :
                  MapItem(memoryCache', k).timestamp = MapItem(memoryCache, k).timestamp
      ]_vars

\* C2 witness: set evicted an entry while an older-than-now entry of another
\* key stayed.
C2_Witness ==
    /\ lastOp.op = "set"
    /\ lastOp.evicted # NoKey
    /\ \E i \in 1..Len(memoryCache) :
          /\ memoryCache[i].key # lastOp.key
          /\ memoryCache[i].item.timestamp < now

entryFor(k) ==
    IF MapHas(memoryCache, k) THEN MapItem(memoryCache, k)
    ELSE IF storeActive /\ localStorage[k].type = "json"
         THEN Deserialize(localStorage[k])
         ELSE Null

\* C4: a get(k) that finds the entry of k with now - timestamp > ttl reports
\* absent, leaves k out of memory and (unless localStorage itself fails) out
\* of localStorage, and getStats then counts no valid item for k; a get(k)
\* that finds it with now - timestamp <= ttl returns its value (unless the
\* read of localStorage fails).
C4_ExpiryOnRead ==
    [][ lastOp'.op = "get" =>
          LET k == lastOp'.key
              e == entryFor(k)
          IN  /\ (e # Null /\ now - e.timestamp > e.ttl) =>
                    /\ lastOp'.ret = Null
                    /\ ~MapHas(memoryCache', k)
                    /\ (storeActive /\ ~lastOp'.fault) => localStorage'[k].type = "absent"
                    /\ GetStatsResult(memoryCache', now').ret.validItems =
                          Cardinality({ i \in 1..Len(memoryCache') :
                              /\ memoryCache'[i].key # k
                              /\ now' - memoryCache'[i].item.timestamp
                                    <= memoryCache'[i].item.ttl })
              /\ (e # Null /\ now - e.timestamp <= e.ttl /\ ~lastOp'.fault) =>
                    lastOp'.ret = e.data
      ]_vars

\* C4 witness: get found an expired entry and removed it from memory and from
\* localStorage.
C4_Witness ==
    /\ lastOp.op = "get"
    /\ lastOp.path = "expired"
    /\ ~lastOp.fault
    /\ storeActive
    /\ localStorage[lastOp.key].type = "absent"

\* C5: after clearByPattern(p) completes, get(k) reports absent for every key
\* k that contains p, and every entry whose key does not contain p is still
\* stored with the same value.
C5_ClearByPatternRemovesMatching ==
    [][ (lastOp'.op = "clearByPattern" /\ ~lastOp'.threw) =>
          /\ \A k \in Keys : includes(k, lastOp'.arg) => getReportsAbsent(k)'
          /\ \A i \in 1..Len(memoryCache) :
                ~includes(memoryCache[i].key, lastOp'.arg) =>
                    /\ MapHas(memoryCache', memoryCache[i].key)
                    /\ MapItem(memoryCache', memoryCache[i].key) = memoryCache[i].item
      ]_vars

C7_GetNeverThrows ==
    lastOp.op = "get" =>
        /\ ~lastOp.threw
        /\ \/ lastOp.ret = Null
           \/ /\ MapHas(memoryCache, lastOp.key)
              /\ lastOp.ret = MapItem(memoryCache, lastOp.key).data

\* C7 witness: removeItem threw while get was removing an expired entry.
C7_Witness ==
    /\ lastOp.op = "get"
    /\ lastOp.path = "expired"
    /\ lastOp.fault

C9_RemovalFailuresAreSwallowed ==
    lastOp.op \in {"delete", "clearByPattern", "clear"} => ~lastOp.threw

\* C10: getStats() reports totalItems = number of in-memory entries =
\* validItems + expiredItems, counts as expired exactly the entries with
\* now - timestamp > ttl, and changes nothing; an entry leaves memory only
\* when it is accessed by get, deleted, cleared or evicted by set.
C10_StatsCountAndKeep ==
    [][ /\ lastOp'.op = "getStats" =>
              /\ memoryCache' = memoryCache
              /\ localStorage' = localStorage
              /\ lastOp'.ret.totalItems = Len(memoryCache)
              /\ lastOp'.ret.totalItems = lastOp'.ret.validItems + lastOp'.ret.expiredItems
              /\ lastOp'.ret.expiredItems =
                    Cardinality({ i \in 1..Len(memoryCache) :
                        now - memoryCache[i].item.timestamp > memoryCache[i].item.ttl })
        /\ \A k \in MapKeys(memoryCache) \ MapKeys(memoryCache') :
              \/ lastOp'.op \in {"get", "delete"} /\ lastOp'.key = k
              \/ lastOp'.op \in {"clearByPattern", "clear"}
              \/ lastOp'.op = "set" /\ lastOp'.evicted = k
      ]_vars

\* C10 witness: getStats counted an expired and a valid entry.
C10_Witness ==
    /\ lastOp.op = "getStats"
    /\ lastOp.ret.expiredItems > 0
    /\ lastOp.ret.validItems > 0
    /\ Len(memoryCache) = lastOp.ret.totalItems

\* The edit distance of two strings, by its recursive definition.
RECURSIVE editDistance(_, _)
editDistance(a, b) ==
    IF a = <<>> THEN Len(b)
    ELSE IF b = <<>> THEN Len(a)
    ELSE Min2(Min2(editDistance(Tail(a), b) + 1, editDistance(a, Tail(b)) + 1),
              editDistance(Tail(a), Tail(b)) + (IF Head(a) = Head(b) THEN 0 ELSE 1))

\* a = b as numbers
FracEq(a, b) == a.num * b.den = b.num * a.den

\* C13: for text t and non-empty query q compared without case, matchText
\* answers 'exact' with confidence 1 when t equals q; otherwise 'partial'
\* with confidence |q|/|t| when t contains q; otherwise, only when fuzzy is
\* asked for and (max(|t|,|q|) - editDistance)/max(|t|,|q|) is strictly above
\* 0.6, 'fuzzy' with that similarity as confidence; otherwise no match.
C13_MatchTextClassification ==
    lastOp.op = "matchText" =>
        LET t == toLowerCase(lastOp.text)
            q == toLowerCase(lastOp.query)
            m == Max2(Len(t), Len(q))
            d == editDistance(t, q)
            r == lastOp.ret
        IN  IF t = q
            THEN r # Null /\ r.matchType = "exact" /\ FracEq(r.confidence, Frac(1, 1))
            ELSE IF \E i \in 1..Len(t), j \in 1..Len(t) : SubSeq(t, i, j) = q
            THEN r # Null /\ r.matchType = "partial"
                 /\ FracEq(r.confidence, Frac(Len(q), Len(t)))
            ELSE IF lastOp.fuzzy /\ (m - d) * 10 > 6 * m
            THEN r # Null /\ r.matchType = "fuzzy"
                 /\ FracEq(r.confidence, Frac(m - d, m))
            ELSE r = Null

\* A misspelt text is matched as 'fuzzy' with a confidence below 1.
C13_Witness ==
    /\ lastOp.op = "matchText"
    /\ lastOp.fuzzy
    /\ lastOp.ret # Null
    /\ lastOp.ret.matchType = "fuzzy"
    /\ lastOp.ret.confidence.num < lastOp.ret.confidence.den

\* The entries search can return: every entry of every chart the engine
\* holds, with its chart.
indexedEntries ==
    UNION { { [entry |-> chartDataCache[i].item.entries[j],
               chartData |-> chartDataCache[i].item] :
                j \in 1..Len(chartDataCache[i].item.entries) } :
            i \in 1..Len(chartDataCache) }

returnedEntries(results) ==
    { [entry |-> results[k].entry, chartData |-> results[k].chartData] :
        k \in 1..Len(results) }

\* text equals or contains query, case-insensitively
containsText(text, query) ==
    \E i \in 0..Len(text) :
        /\ i + Len(query) <= Len(text)
        /\ \A k \in 1..Len(query) : lower(text[i + k]) = lower(query[k])

\* C11: for a non-fuzzy query whose only filter is artist, search returns
\* exactly the indexed entries whose artist equals or contains the query text
\* case-insensitively, each of them once.
C11_ArtistSearchExact ==
    (/\ lastOp.op = "search"
     /\ lastOp.arg.artist # <<>>
     /\ lastOp.arg = [BaseQuery EXCEPT !.artist = lastOp.arg.artist])
    => /\ returnedEntries(lastOp.ret.results)
            = { e \in indexedEntries : containsText(e.entry.artist, lastOp.arg.artist) }
       /\ Len(lastOp.ret.results) = Cardinality(returnedEntries(lastOp.ret.results))

\* C12: for a query whose only filter is rankRange {min, max}, search returns
\* exactly the indexed entries with min <= rank <= max, each of them once; a
\* range with min > max gives an empty result.
C12_RankRangeExact ==
    (/\ lastOp.op = "search"
     /\ lastOp.arg.rankRange.some
     /\ lastOp.arg = [BaseQuery EXCEPT !.rankRange = lastOp.arg.rankRange])
    => /\ returnedEntries(lastOp.ret.results)
            = { e \in indexedEntries :
                  /\ lastOp.arg.rankRange.v.min <= e.entry.rank
                  /\ e.entry.rank <= lastOp.arg.rankRange.v.max }
       /\ Len(lastOp.ret.results) = Cardinality(returnedEntries(lastOp.ret.results))

\* C14: search returns its results in non-increasing score order, and when a
\* limit L is given the list returned is the first L elements of the list the
\* same query gives without a limit (at most L results).
C14_SortedThenLimited ==
    lastOp.op = "search" =>
        LET results == lastOp.ret.results
            unlimited == search(searchIndex, chartDataCache,
                                [lastOp.arg EXCEPT !.limit = None], lastOp.at).results
        IN  /\ \A i, j \in 1..Len(results) : i < j => results[i].score >= results[j].score
            /\ lastOp.arg.limit.some =>
                  /\ Len(results) <= lastOp.arg.limit.v
                  /\ results = SubSeq(unlimited, 1, Len(results))
                  /\ Len(results) = Min2(lastOp.arg.limit.v, Len(unlimited))

\* C15: findSimilar(entry, limit) returns at most limit results, and none of
\* them has the normalized (title, artist) hash of the input entry.
C15_FindSimilarExcludesOriginal ==
    lastOp.op = "findSimilar" =>
        /\ Len(lastOp.ret) <= lastOp.arg.limit
        /\ \A k \in 1..Len(lastOp.ret) :
              createEntryHash(lastOp.ret[k].entry) # createEntryHash(lastOp.arg.entry)

\* findSimilar returned something while the engine held the input entry's
\* track under another spelling of its title.
C15_Witness ==
    /\ lastOp.op = "findSimilar"
    /\ Len(lastOp.ret) >= 1
    /\ \E e \in indexedEntries :
          /\ e.entry.title # lastOp.arg.entry.title
          /\ createEntryHash(e.entry) = createEntryHash(lastOp.arg.entry)

\* Every entry pushed into the index since it was last cleared.
searchIndexEntries ==
    UNION { { searchIndex[i].item[j] : j \in 1..Len(searchIndex[i].item) } :
            i \in 1..Len(searchIndex) }

\* The values of a field, as the entries spell them, that contain the term.
matchingValues(field, term) ==
    { fieldValue(e, field) :
        e \in { x \in searchIndexEntries : containsText(fieldValue(x, field), term) } }

\* C16: quickSearch(term, field, limit) returns at most limit values, none of
\* them twice, each the value of that field of an indexed entry in its
\* original case and containing term case-insensitively; when no more than
\* limit distinct matching values are indexed, it returns all of them.
C16_QuickSearchSuggestions ==
    lastOp.op = "quickSearch" =>
        LET ret == lastOp.ret
            matching == matchingValues(lastOp.arg.field, lastOp.arg.term)
        IN  /\ Len(ret) <= lastOp.arg.limit
            /\ \A i, j \in 1..Len(ret) : i # j => ret[i] # ret[j]
            /\ \A i \in 1..Len(ret) : ret[i] \in matching
            /\ Cardinality(matching) <= lastOp.arg.limit
                  => { ret[i] : i \in 1..Len(ret) } = matching

\* quickSearch returned both matching values, one of them spelt with an upper
\* case letter where the term has a lower case one.
C16_Witness ==
    /\ lastOp.op = "quickSearch"
    /\ Len(lastOp.ret) = 2
    /\ Cardinality(matchingValues(lastOp.arg.field, lastOp.arg.term)) = 2
    /\ \E i \in 1..2 : \E k \in 1..Len(lastOp.ret[i]) :
          /\ lastOp.ret[i][k] \in UpperCase
          /\ lower(lastOp.ret[i][k]) = lastOp.arg.term[1]

\* The recency boost of every chart held is already 0 at clock reading t.
allChartsStale(t) ==
    \A i \in 1..Len(chartDataCache) : recencyBoost(chartDataCache[i].item, t) = 0

\* C17 as stated: a search repeated with the same query, with no
\* indexChartData or clearIndex call in between, returns the same results in
\* the same order.
C17_RepeatedSearchSameResults ==
    (lastOp.op = "search" /\ lastOp.again)
    => lastOp.ret.results = lastOp.before.results

\* C17, amended: a search repeated with the same query, with no indexChartData
\* or clearIndex call in between, returns the same results in the same order
\* when the clock reads the same at both calls or every chart held was already
\* 30 days old at the first; and search leaves the index and the chart map as
\* they were.
C17_RepeatedSearchSameClock ==
    [][(lastOp'.op = "search" /\ now' = now)
       => /\ searchIndex' = searchIndex
          /\ chartDataCache' = chartDataCache
          /\ (lastOp'.again /\ (lastOp'.since = lastOp'.at \/ allChartsStale(lastOp'.since)))
                => lastOp'.ret.results = lastOp'.before.results]_vars

\* The search was repeated a day later on charts older than 30 days, and
\* returned something.
C17_Witness ==
    /\ lastOp.op = "search"
    /\ lastOp.again
    /\ lastOp.since < lastOp.at
    /\ allChartsStale(lastOp.since)
    /\ Len(lastOp.ret.results) >= 1

\* What search(query) returns now, as entries with their charts.
returnedFor(query) ==
    returnedEntries(search(searchIndex, chartDataCache, query, now).results)

\* C19: in strict mode an entry whose title does not match a supplied title
\* filter is rejected; an entry whose artist does not match a supplied artist
\* filter is rejected when the query has no title filter and, when it has
\* one, fares as it would without the artist filter; and an entry whose album
\* does not match a supplied album filter fares as it would without the album
\* filter.
C19_StrictModeRejections ==
    (lastOp.op = "search" /\ ~lastOp.arg.fuzzy /\ lastOp.at = now) =>
        LET q == lastOp.arg
            returned == returnedEntries(lastOp.ret.results)
        IN  \A e \in indexedEntries :
              /\ (q.title # <<>> /\ ~containsText(e.entry.title, q.title))
                    => e \notin returned
              /\ (q.artist # <<>> /\ ~containsText(e.entry.artist, q.artist))
                    => IF q.title = <<>>
                       THEN e \notin returned
                       ELSE e \in returned
                            <=> e \in returnedFor([q EXCEPT !.artist = <<>>])
              /\ (q.album # <<>> /\ ~containsText(e.entry.album, q.album))
                    => (e \in returned <=> e \in returnedFor([q EXCEPT !.album = <<>>]))

\* A strict search by title and artist returned an entry whose artist does
\* not match, and one by album returned an entry whose album does not match.
C19_Witness ==
    /\ lastOp.op = "search"
    /\ ~lastOp.arg.fuzzy
    /\ lastOp.arg.title # <<>>
    /\ lastOp.arg.artist # <<>>
    /\ lastOp.arg.album # <<>>
    /\ \E k \in 1..Len(lastOp.ret.results) :
          /\ ~containsText(lastOp.ret.results[k].entry.artist, lastOp.arg.artist)
          /\ ~containsText(lastOp.ret.results[k].entry.album, lastOp.arg.album)

\* value is given and lies outside [min, max]
valueOutside(value, range) ==
    value.some /\ (value.v < range.v.min \/ value.v > range.v.max)

\* C20: of the entries the query returns without it, weeksRange
\* (peakRange) excludes exactly those that have a weeksOnChart (peakPosition)
\* value outside [min, max]; an entry without a value is kept.
C20_RangeExcludesValuesOutside ==
    (lastOp.op = "search" /\ lastOp.at = now) =>
        LET q == lastOp.arg
            returned == returnedEntries(lastOp.ret.results)
        IN  /\ q.weeksRange.some
                  => returned =
                       { e \in returnedFor([q EXCEPT !.weeksRange = None]) :
                           ~valueOutside(e.entry.weeksOnChart, q.weeksRange) }
            /\ q.peakRange.some
                  => returned =
                       { e \in returnedFor([q EXCEPT !.peakRange = None]) :
                           ~valueOutside(e.entry.peakPosition, q.peakRange) }

\* The call passes forceRefresh: true or useCache: false.
bypasses(arg) == arg.forceRefresh \/ ~arg.useCache

\* What C18 asks of a getChart call whose chart is there to be served.
servedAsClaimed ==
    IF bypasses(lastOp.arg)
    THEN /\ lastOp.path = "client"
         /\ ~lastOp.threw
               => /\ MapHas(memoryCache, lastOp.key)
                  /\ MapItem(memoryCache, lastOp.key).data = lastOp.ret
                  /\ MapItem(memoryCache, lastOp.key).timestamp = now
    ELSE /\ lastOp.path = "cache"
         /\ lastOp.ret = lastOp.before.data

\* C18 as stated: with enableCache true, once getChart has fetched and cached
\* a chart, a later getChart for the same chart type, source and calendar day
\* made before the TTL elapses returns the cached ChartData without calling
\* the client, unless it passes forceRefresh: true or useCache: false, and
\* then the client is called and its result stored again.
C18_ServedFromCacheWithinTtl ==
    (lastOp.op = "getChart" /\ config.enableCache /\ lastOp.due)
    => servedAsClaimed

\* C18, amended: the same, for a chart that the cache still holds, which it
\* does unless the chart was evicted to make room for another one.
C18_ServedFromCacheWhileHeld ==
    (lastOp.op = "getChart" /\ config.enableCache /\ lastOp.due /\ lastOp.held)
    => servedAsClaimed

\* A chart stored for one instant of a day was served, a millisecond later and
\* without the client, to a call asking for another instant of that day.
C18_Witness ==
    /\ lastOp.op = "getChart"
    /\ config.enableCache
    /\ lastOp.due
    /\ lastOp.held
    /\ ~bypasses(lastOp.arg)
    /\ lastOp.path = "cache"
    /\ lastOp.ret.date # lastOp.arg.date
    /\ lastOp.before.at < now

\* The confidence a text filter earns on a field value, as a fraction: 1 for
\* an equal text, |q|/|t| for a contained one, the similarity for a fuzzy
\* match above 0.6, 0 for no filter, no value or no match.
confidenceOf(text, query, fuzzy) ==
    LET t == toLowerCase(text)
        q == toLowerCase(query)
        m == Max2(Len(t), Len(q))
        d == editDistance(t, q)
    IN  IF query = <<>> \/ text = <<>> THEN Frac(0, 1)
        ELSE IF t = q THEN Frac(1, 1)
        ELSE IF containsText(text, query) THEN Frac(Len(q), Len(t))
        ELSE IF fuzzy /\ (m - d) * 10 > 6 * m THEN Frac(m - d, m)
        ELSE Frac(0, 1)

\* A fraction in score units; the denominators met (text lengths, 100, 30)
\* all divide ScoreUnit.
inUnits(num, den) == (ScoreUnit \div den) * num

\* score = 3 ct + 2 ca + cl + (101 - rank)/100 + max(0, (30 - days)/30)
scoreAsClaimed(result, query, t) ==
    LET ct == confidenceOf(result.entry.title, query.title, query.fuzzy)
        ca == confidenceOf(result.entry.artist, query.artist, query.fuzzy)
        cl == confidenceOf(result.entry.album, query.album, query.fuzzy)
        days == t - result.chartData.date.iso
    IN  /\ ScoreUnit % ct.den = 0 /\ ScoreUnit % ca.den = 0 /\ ScoreUnit % cl.den = 0
        /\ result.score = 3 * inUnits(ct.num, ct.den)
                          + 2 * inUnits(ca.num, ca.den)
                          + inUnits(cl.num, cl.den)
                          + inUnits(101 - result.entry.rank, 100)
                          + inUnits(Max2(0, 30 - days), 30)

\* C21: the score of every entry search returns is 3 x title confidence
\* + 2 x artist confidence + 1 x album confidence (0 for a field with no
\* filter or no match) + (101 - rank)/100 + max(0, (30 - days since the chart
\* date)/30).
C21_ScoreFormula ==
    lastOp.op = "search" =>
        \A k \in 1..Len(lastOp.ret.results) :
            scoreAsClaimed(lastOp.ret.results[k], lastOp.arg, lastOp.at)

\* search returned an entry of rank above 101 from a chart older than 30
\* days, matched on two fields.
C21_Witness ==
    /\ lastOp.op = "search"
    /\ \E k \in 1..Len(lastOp.ret.results) :
          /\ lastOp.ret.results[k].entry.rank > 101
          /\ lastOp.at - lastOp.ret.results[k].chartData.date.iso > 30
          /\ Len(lastOp.ret.results[k].matches) = 2

\* C22: for every indexed entry the position boost (101 - rank)/100 and the
\* recency boost added to its score are both non-negative.
C22_BoostsNonNegative ==
    \A e \in indexedEntries :
        /\ positionBoost(e.entry) >= 0
        /\ recencyBoost(e.chartData, now) >= 0

\* The bucket of a key, empty when the index has no such key.
bucketOf(index, key) == IF MapHas(index, key) THEN MapItem(index, key) ELSE <<>>

\* How many times the bucket records the entry.
occurrences(bucket, entry) == Cardinality({ i \in 1..Len(bucket) : bucket[i] = entry })

\* The buckets indexChartData files an entry under.
keysOfEntry(entry) ==
    { <<"t", "i", "t", "l", "e", ":">> \o toLowerCase(entry.title),
      <<"a", "r", "t", "i", "s", "t", ":">> \o toLowerCase(entry.artist),
      <<"f", "u", "l", "l", ":">>
          \o toLowerCase(entry.title) \o <<" ">> \o toLowerCase(entry.artist) }
    \cup (IF entry.album = <<>> THEN {}
          ELSE { <<"a", "l", "b", "u", "m", ":">> \o toLowerCase(entry.album) })

\* How many times the charts given carry the entry.
timesGiven(chartData, entry) ==
    Cardinality(UNION { { <<c, j>> : j \in { i \in 1..Len(chartData[c].entries) :
                                                chartData[c].entries[i] = entry } } :
                        c \in 1..Len(chartData) })

\* C23: indexChartData is append-only: every bucket keeps what it held, in
\* order, and each entry of each chart given is recorded once more in each of
\* its buckets (title, artist, album if present, title and artist combined)
\* and in no other, whether or not it was recorded there before.
C23_IndexAppendOnly ==
    [][lastOp'.op = "indexChartData" =>
         \A key \in MapKeys(searchIndex) \cup MapKeys(searchIndex') :
            /\ Len(bucketOf(searchIndex, key)) <= Len(bucketOf(searchIndex', key))
            /\ SubSeq(bucketOf(searchIndex', key), 1, Len(bucketOf(searchIndex, key)))
                  = bucketOf(searchIndex, key)
            /\ \A entry \in Entries :
                  occurrences(bucketOf(searchIndex', key), entry)
                     = occurrences(bucketOf(searchIndex, key), entry)
                       + (IF key \in keysOfEntry(entry)
                          THEN timesGiven(lastOp'.arg, entry) ELSE 0)]_vars

\* The same chart was indexed twice: each of its entries is recorded twice in
\* each of its buckets.
C23_Witness ==
    /\ lastOp.op = "indexChartData"
    /\ \A j \in 1..Len(lastOp.arg[1].entries) :
          \A key \in keysOfEntry(lastOp.arg[1].entries[j]) :
              occurrences(bucketOf(searchIndex, key), lastOp.arg[1].entries[j]) = 2

\* C24: set on a key that is already in the cache replaces its value and
\* evicts no other entry, even when the cache is full; an entry leaves the
\* cache on a set only when the cache is full and the key is new.
C24_SetEvictsOnlyForNewKey ==
    [][lastOp'.op = "set" =>
         /\ MapHas(memoryCache, lastOp'.key)
               => /\ MapKeys(memoryCache') = MapKeys(memoryCache)
                  /\ MapItem(memoryCache', lastOp'.key).data = lastOp'.arg
         /\ MapKeys(memoryCache) \ MapKeys(memoryCache') # {}
               => /\ Len(memoryCache) >= options.maxSize
                  /\ ~MapHas(memoryCache, lastOp'.key)]_vars

\* C25: when a get(k) that missed memory on a persistent cache ends after a
\* set(k, v) made while it was suspended, the in-memory entry for k is v, and
\* a later get(k) returns v.
C25_SetWinsOverSuspendedGet ==
    (lastOp.op = "getResume" /\ lastOp.arg # Void)
    => /\ MapHas(memoryCache, lastOp.key)
       /\ MapItem(memoryCache, lastOp.key).data = lastOp.arg
       /\ GetResult(memoryCache, localStorage, lastOp.key, now, "none").ret = lastOp.arg

\* C26: with persistence enabled, the number of in-memory entries never
\* exceeds maxSize, after construction (the load of every unexpired stored
\* entry), set and get (read-through from the backing store).
C26_PersistentSizeWithinMaxSize ==
    (options.persistent /\ lastOp.op \in {"new", "set", "get"})
    => Len(memoryCache) <= options.maxSize

\* C27: every result search returns for a query that supplies at least one of
\* title, artist and album records at least one match, in strict and in fuzzy
\* mode.
C27_ResultsRecordAMatch ==
    (/\ lastOp.op = "search"
     /\ (lastOp.arg.title # <<>> \/ lastOp.arg.artist # <<>> \/ lastOp.arg.album # <<>>))
    => \A k \in 1..Len(lastOp.ret.results) : lastOp.ret.results[k].matches # <<>>

\* C28: every entry referenced by the search index belongs to a chart held in
\* the chart map, and every value quickSearch suggests is the field value of
\* an entry of such a chart.
C28_IndexWithinChartMap ==
    /\ \A e \in searchIndexEntries : \E x \in indexedEntries : x.entry = e
    /\ lastOp.op = "quickSearch"
          => \A i \in 1..Len(lastOp.ret) :
                \E x \in indexedEntries :
                    fieldValue(x.entry, lastOp.arg.field) = lastOp.ret[i]

\* C29: a chart that getChart serves from the cache was fetched with the
\* same FetchOptions.limit as the request it is served to.
C29_CachedChartHasRequestedLimit ==
    (lastOp.op = "getChart" /\ lastOp.path = "cache")
    => /\ lastOp.before # Null
       /\ lastOp.before.limit = lastOp.arg.limit

\* C30: clearCache(chartType, source) with both arguments removes exactly the
\* cached charts of that chart type and source, and leaves every other cached
\* chart in place, those of a chart type named chartType plus '-...' too.
C30_ClearCacheRemovesExactly ==
    [][(/\ lastOp'.op = "clearCache"
        /\ lastOp'.arg.chartType # <<>>
        /\ lastOp'.arg.source # "")
       => memoryCache'
            = SelectSeq(memoryCache,
                LAMBDA e : ~(/\ e.item.data.chartType = lastOp'.arg.chartType
                             /\ e.item.data.source = lastOp'.arg.source))]_vars

====
